---- MODULE Spec2Model ----
(***************************************************************************)
(* Model of examples/python_sdk_demo.py of jtrefon/bcai.                   *)
(*                                                                         *)
(* The file holds two programs:                                            *)
(*   - the SDK client (BCaiClient, TrainingJob, JobResult), modelled by    *)
(*     the specification Spec;                                             *)
(*   - the federated learning script carried by demo_federated_learning    *)
(*     (federated_averaging, run_federated_learning), modelled by FedSpec, *)
(*     with federated_averaging alone, as a pure function over arbitrary   *)
(*     inputs, under AvgSpec.                                              *)
(***************************************************************************)
EXTENDS Integers, Sequences, FiniteSets, TLC

(***************************************************************************)
(* Bounds of the model.                                                    *)
(***************************************************************************)
\* number of submit_job calls made on one client
MaxJobs == 2
\* largest value of config["epochs"] a submitted job carries
MaxEpochs == 1
\* largest reward_tokens a submitted job carries
MaxReward == 1
\* stands for num_rounds = 10 of run_federated_learning
NumRounds == 2
\* stands for num_clients = 5 of run_federated_learning
NumClients == 2
\* longest client_weights list handed to federated_averaging under AvgSpec
MaxClients == 2
\* largest parameter value handed to federated_averaging under AvgSpec
MaxVal == 4
\* largest parameter value a model or a local training holds under FedSpec
MaxLocalVal == 1

(***************************************************************************)
(* Program constants.                                                      *)
(***************************************************************************)
\* job.config.get("epochs", 10)
DefaultEpochs == 10
\* self.resources.get("memory_mb", 2048)
DefaultMemoryMb == 2048
\* "max_execution_time_ms": 300000
MaxExecutionTimeMs == 300000
\* "execution_time_ms": 5000
ExecutionTimeMs == 5000
\* gas_used=1000
GasUsed == 1000
\* 'features': torch.randn(100, 784): every client holds 100 samples
LocalSamples == 100
\* distributed: min_workers: 3
MinWorkers == 3

None == "None"
ModelHash == "abc123def456"

(***************************************************************************)
(* Inputs of the client.                                                   *)
(***************************************************************************)
Names == {"mnist", "bert"}
Packages == {"torch", "os"}
\* hash() of a str: a function fixed for the life of the process
\* (PYTHONHASHSEED), into a space small enough for collisions to show
HashVals == {0, 1}

\* a Python dict with at most the key k, as a function
DictOf(k, vals) == {[x \in {} |-> 0]} \cup {[x \in {k} |-> v] : v \in vals}

\* dict.get(key, default)
Get(d, k, default) == IF k \in DOMAIN d THEN d[k] ELSE default

\* TrainingJob.__init__ (data_source and code are carried, never read by the
\* client's control flow; code is one opaque value)
TrainingJob(name, code, requirements, resources, reward_tokens, config) ==
    [name |-> name, code |-> code, requirements |-> requirements,
     resources |-> resources, reward_tokens |-> reward_tokens,
     config |-> config]

Jobs ==
    {TrainingJob(n, "code", rq, rs, rw, cf) :
        n \in Names, rq \in SUBSET Packages,
        rs \in DictOf("memory_mb", {1024}),
        rw \in 0..MaxReward,
        cf \in DictOf("epochs", 0..MaxEpochs)}

VARIABLES
    \* ---- client ----
    pc,            \* position inside submit_job
    job,           \* the job of the current (or last) submit_job call
    instructions,  \* instructions = job.to_vm_instructions()
    epoch,         \* iterations of _simulate_job_execution's loop done
    executed,      \* _simulate_job_execution was entered for job
    sim_result,    \* result = self._simulate_job_execution(job)
    submitted,     \* names of the jobs submitted, in order
    results,       \* the JobResults returned, in order
    hashfn,        \* hash() on str for this process
    \* ---- federated script ----
    fpc, round_num, client_i, client_updates, global_weights,
    init_weights, dispatched, last_agg, agg_count,
    \* ---- federated_averaging alone ----
    apc, a_in, a_out

cvars == <<pc, job, instructions, epoch, executed, sim_result, submitted,
           results, hashfn>>
fvars == <<fpc, round_num, client_i, client_updates, global_weights,
           init_weights, dispatched, last_agg, agg_count>>
avars == <<apc, a_in, a_out>>
vars == <<cvars, fvars, avars>>

(***************************************************************************)
(* The client.                                                             *)
(***************************************************************************)
\* TrainingJob.to_vm_instructions
to_vm_instructions(j) ==
    << [type |-> "PythonExecute",
        code |-> j.code,
        input_tensors |-> << <<"data", 1>> >>,
        output_tensors |-> << <<"model", 2>> >>,
        constraints |->
            [max_memory_mb |-> Get(j.resources, "memory_mb", DefaultMemoryMb),
             max_execution_time_ms |-> MaxExecutionTimeMs,
             allowed_imports |-> j.requirements]] >>

\* a faulty variant: `job.config.get("epochs") or 10`, which takes 0 for absent
EpochsFalsy(j) ==
    IF "epochs" \in DOMAIN j.config /\ j.config["epochs"] # 0
    THEN j.config["epochs"] ELSE DefaultEpochs

\* job.config.get("epochs", 10)
Epochs(j) == Get(j.config, "epochs", DefaultEpochs)

\* JobResult.__init__
JobResult(job_id, success, model_hash, training_metrics, gas_used, reward_earned, error_message) ==
    [job_id |-> job_id, success |-> success, model_hash |-> model_hash,
     training_metrics |-> training_metrics, gas_used |-> gas_used,
     reward_earned |-> reward_earned, error_message |-> error_message]

\* a faulty variant: the reward is paid on top of the gas refund
MakeJobResultBonus(j, h) ==
    JobResult(<<"job_", h[j.name]>>, TRUE, ModelHash,
              [final_loss |-> "0.15", accuracy |-> "0.92",
               epochs |-> Epochs(j), execution_time_ms |-> ExecutionTimeMs],
              GasUsed, j.reward_tokens + 1, None)

\* the JobResult(...) expression submit_job returns
MakeJobResult(j, h) ==
    JobResult(<<"job_", h[j.name]>>, TRUE, ModelHash,
              [final_loss |-> "0.15", accuracy |-> "0.92",
               epochs |-> Epochs(j), execution_time_ms |-> ExecutionTimeMs],
              GasUsed, j.reward_tokens, None)

\* before the first submit_job call there is no job
NoJob == TrainingJob("", "", {}, [x \in {} |-> 0], 0, [x \in {} |-> 0])

NoResult == [status |-> "none"]

ClientInit ==
    /\ pc = "idle"
    /\ job = NoJob
    /\ instructions = <<>>
    /\ epoch = 0
    /\ executed = FALSE
    /\ sim_result = NoResult
    /\ submitted = <<>>
    /\ results = <<>>
    /\ hashfn \in [Names -> HashVals]

\* submit_job is called: instructions = job.to_vm_instructions()
SubmitJob ==
    /\ pc = "idle"
    /\ Len(submitted) < MaxJobs
    /\ \E j \in Jobs :
        /\ job' = j
        /\ submitted' = Append(submitted, j.name)
        /\ instructions' = to_vm_instructions(j)
    /\ epoch' = 0
    /\ executed' = FALSE
    /\ sim_result' = NoResult
    /\ pc' = "simulate"
    /\ UNCHANGED <<results, hashfn>>
    /\ UNCHANGED <<fvars, avars>>

\* _simulate_job_execution is entered: the three prints
SimulateStart ==
    /\ pc = "simulate"
    /\ executed' = TRUE
    /\ epoch' = 0
    /\ pc' = "epoch"
    /\ UNCHANGED <<job, instructions, sim_result, submitted, results, hashfn>>
    /\ UNCHANGED <<fvars, avars>>

\* one iteration of `for epoch in range(1, job.config.get("epochs", 10) + 1)`
SimulateEpoch ==
    /\ pc = "epoch"
    /\ epoch < Epochs(job)
    /\ epoch' = epoch + 1
    /\ UNCHANGED <<pc, job, instructions, executed, sim_result, submitted,
                   results, hashfn>>
    /\ UNCHANGED <<fvars, avars>>

\* a faulty variant: the loop is left one iteration early (range(1, epochs))
SimulateReturnEarly ==
    /\ pc = "epoch"
    /\ epoch + 1 >= Epochs(job)
    /\ sim_result' = [status |-> "completed"]
    /\ pc' = "result"
    /\ UNCHANGED <<job, instructions, epoch, executed, submitted, results,
                   hashfn>>
    /\ UNCHANGED <<fvars, avars>>

\* the loop is exhausted: return {"status": "completed"}
SimulateReturn ==
    /\ pc = "epoch"
    /\ ~(epoch < Epochs(job))
    /\ sim_result' = [status |-> "completed"]
    /\ pc' = "result"
    /\ UNCHANGED <<job, instructions, epoch, executed, submitted, results,
                   hashfn>>
    /\ UNCHANGED <<fvars, avars>>

\* submit_job returns its JobResult
ReturnResult ==
    /\ pc = "result"
    /\ results' = Append(results, MakeJobResult(job, hashfn))
    /\ pc' = "idle"
    /\ UNCHANGED <<job, instructions, epoch, executed, sim_result, submitted,
                   hashfn>>
    /\ UNCHANGED <<fvars, avars>>

ClientNext ==
    \/ SubmitJob
    \/ SimulateStart
    \/ SimulateEpoch
    \/ SimulateReturn
    \/ ReturnResult

(***************************************************************************)
(* Tensor arithmetic: a parameter is one exact rational [num, den].        *)
(***************************************************************************)
RECURSIVE GCD(_, _)
GCD(a, b) == IF b = 0 THEN a ELSE GCD(b, a % b)

Abs(n) == IF n < 0 THEN -n ELSE n

Rat(n, d) ==
    LET g == GCD(Abs(n), d) IN [num |-> n \div g, den |-> d \div g]

RatAdd(a, b) == Rat(a.num * b.den + b.num * a.den, a.den * b.den)

RatMulInt(a, n) == Rat(a.num * n, a.den)

RatDivInt(a, n) == Rat(a.num, a.den * n)

RECURSIVE SumRat(_)
SumRat(vals) ==
    IF vals = <<>> THEN Rat(0, 1)
    ELSE RatAdd(Head(vals), SumRat(Tail(vals)))

\* a faulty variant: torch.sum in place of torch.mean
MeanAsSum(vals) == SumRat(vals)

\* torch.mean(torch.stack([...]), dim=0)
Mean(vals) == RatDivInt(SumRat(vals), Len(vals))

Params == {"w", "b"}

(***************************************************************************)
(* federated_averaging(client_weights).  The result is the returned dict, *)
(* or the exception the call raises.                                       *)
(***************************************************************************)
Returned(value) == [error |-> None, value |-> value]
Raised(error) == [error |-> error, value |-> [x \in {} |-> 0]]

federated_averaging(client_weights) ==
    IF Len(client_weights) = 0
    THEN Raised("IndexError")           \* client_weights[0]
    ELSE LET param_names == DOMAIN client_weights[1]
         IN IF \E i \in 1..Len(client_weights) :
                   ~(param_names \subseteq DOMAIN client_weights[i])
            THEN Raised("KeyError")     \* client_weights[i][param_name]
            ELSE Returned(
                   [param_name \in param_names |->
                      Mean([i \in 1..Len(client_weights) |->
                               client_weights[i][param_name]])])

(***************************************************************************)
(* run_federated_learning.                                                 *)
(***************************************************************************)
\* a state_dict of simple_cnn(): every parameter of the architecture
Weights == [Params -> {Rat(v, 1) : v \in 0..MaxLocalVal}]

\* a faulty variant: the average is computed and dropped (global_weights is not
\* assigned)
StaleGlobalWeights(gw, updates) == gw

\* global_weights = federated_averaging(client_updates)
NextGlobalWeights(gw, updates) == federated_averaging(updates).value

FedInit ==
    /\ fpc = "loop"
    /\ round_num = 0
    /\ client_i = 0
    /\ client_updates = <<>>
    /\ init_weights \in Weights
    /\ global_weights = init_weights
    /\ dispatched = <<>>
    /\ last_agg = init_weights
    /\ agg_count = 0

\* `for round_num in range(num_rounds)`: a round begins, client_updates = []
RoundStart ==
    /\ fpc = "loop"
    /\ round_num < NumRounds
    /\ client_updates' = <<>>
    /\ client_i' = 0
    /\ dispatched' = <<>>
    /\ fpc' = "collect"
    /\ UNCHANGED <<round_num, global_weights, init_weights, last_agg,
                   agg_count>>
    /\ UNCHANGED <<cvars, avars>>

\* client.local_training(global_weights, epochs=3) of the next client: the
\* weights it is handed are logged, the state_dict it returns is any
LocalTraining ==
    /\ fpc = "collect"
    /\ client_i < NumClients
    /\ \E local_weights \in Weights :
          client_updates' = Append(client_updates, local_weights)
    /\ dispatched' = Append(dispatched,
                            [round |-> round_num, client |-> client_i,
                             weights |-> global_weights])
    /\ client_i' = client_i + 1
    /\ UNCHANGED <<fpc, round_num, global_weights, init_weights, last_agg,
                   agg_count>>
    /\ UNCHANGED <<cvars, avars>>

\* all clients are done: the round's aggregation, then the next round
Aggregate ==
    /\ fpc = "collect"
    /\ client_i = NumClients
    /\ global_weights' = NextGlobalWeights(global_weights, client_updates)
    /\ last_agg' = federated_averaging(client_updates).value
    /\ agg_count' = agg_count + 1
    /\ round_num' = round_num + 1
    /\ fpc' = "loop"
    /\ UNCHANGED <<client_i, client_updates, init_weights, dispatched>>
    /\ UNCHANGED <<cvars, avars>>

\* the loop is exhausted: return global_weights
FedReturn ==
    /\ fpc = "loop"
    /\ round_num = NumRounds
    /\ fpc' = "done"
    /\ UNCHANGED <<round_num, client_i, client_updates, global_weights,
                   init_weights, dispatched, last_agg, agg_count>>
    /\ UNCHANGED <<cvars, avars>>

(***************************************************************************)
(* federated_averaging alone, on any list of client weights.               *)
(***************************************************************************)
\* a client's weights: a dict over some of the parameter names
ClientWeights ==
    UNION {[ks -> {Rat(v, 1) : v \in 0..MaxVal}] : ks \in SUBSET Params \ {{}}}

RECURSIVE ListsUpTo(_, _)
ListsUpTo(S, n) ==
    IF n = 0 THEN {<<>>}
    ELSE LET shorter == ListsUpTo(S, n - 1)
         IN shorter \cup {Append(l, x) : l \in {m \in shorter : Len(m) = n - 1},
                                          x \in S}

AvgInit ==
    /\ apc = "call"
    /\ a_in \in ListsUpTo(ClientWeights, MaxClients)
    /\ a_out = Raised(None)

\* the call federated_averaging(a_in) returns or raises
AverageCall ==
    /\ apc = "call"
    /\ a_out' = federated_averaging(a_in)
    /\ apc' = "returned"
    /\ UNCHANGED a_in
    /\ UNCHANGED <<cvars, fvars>>

(***************************************************************************)
(* The specifications.  A component that a specification leaves out is     *)
(* held at rest.                                                           *)
(***************************************************************************)
ClientOff ==
    /\ pc = "off"
    /\ job = NoJob
    /\ instructions = <<>>
    /\ epoch = 0
    /\ executed = FALSE
    /\ sim_result = NoResult
    /\ submitted = <<>>
    /\ results = <<>>
    /\ hashfn = [n \in Names |-> 0]

FedOff ==
    /\ fpc = "off"
    /\ round_num = 0
    /\ client_i = 0
    /\ client_updates = <<>>
    /\ init_weights = [p \in Params |-> Rat(0, 1)]
    /\ global_weights = init_weights
    /\ dispatched = <<>>
    /\ last_agg = init_weights
    /\ agg_count = 0

AvgOff ==
    /\ apc = "off"
    /\ a_in = <<>>
    /\ a_out = Raised(None)

Init == ClientInit /\ FedOff /\ AvgOff

FedStart == ClientOff /\ FedInit /\ AvgOff

AvgStart == ClientOff /\ FedOff /\ AvgInit

Next == ClientNext

Spec == Init /\ [][Next]_vars

FedNext ==
    \/ RoundStart
    \/ LocalTraining
    \/ Aggregate
    \/ FedReturn

FedSpec == FedStart /\ [][FedNext]_vars

AvgNext == AverageCall

AvgSpec == AvgStart /\ [][AvgNext]_vars

(***************************************************************************)
(* The claims.                                                             *)
(***************************************************************************)
Last(seq) == seq[Len(seq)]

\* the job of the last submit_job call has returned its result
Terminated == pc = "idle" /\ job # NoJob

\* C1: a job whose requirements hold an import that is not on the allow-list
\* is never executed, and its JobResult has success = false with the reason
\* compile_error.
C1_DisallowedImportFails ==
    LET AllowList == {"torch", "numpy"}
    IN (job # NoJob /\ ~(job.requirements \subseteq AllowList)) =>
          /\ ~executed
          /\ Terminated =>
                /\ Last(results).success = FALSE
                /\ Last(results).error_message = "compile_error"

C8_JobIdsUnique ==
    \A i, k \in 1..Len(results) :
        i # k => results[i].job_id # results[k].job_id

C4_RoundOrdering ==
    fpc = "collect" =>
        /\ round_num = agg_count
        /\ \A n \in 1..Len(dispatched) :
              /\ dispatched[n].round = agg_count
              /\ dispatched[n].weights =
                    (IF agg_count = 0 THEN init_weights ELSE last_agg)

C4_Witness ==
    /\ fpc = "collect"
    /\ round_num = 1
    /\ Len(dispatched) = NumClients
    /\ last_agg # init_weights

C3_QuorumEnforced ==
    (apc = "returned" /\ Len(a_in) < MinWorkers) => a_out.error # None

====
